---- MODULE Spec2Model ----
(***************************************************************************)
(* Whiteboard (src/src/App.tsx): a React function component holding a      *)
(* growable raster canvas, a pen/eraser stroke session driven by pointer   *)
(* events, a clear button and a trimmed PNG export.                        *)
(*                                                                         *)
(* React state.  Every useState value exists twice in the model: the       *)
(* variable of the same name is the value React holds (the latest value    *)
(* queued by a setter), and `rendered` is the value the handlers of the    *)
(* current render closed over.  A handler reads `rendered`, a setter       *)
(* writes the state variable, and Render brings the two together and runs  *)
(* the effect of lines 57-86.  React flushes the updates of discrete       *)
(* events (pointerdown, pointerup, pointercancel, click, change) before    *)
(* the event returns, so those handlers end with the render; the updates   *)
(* of continuous events (pointermove, pointerleave, pointerout) and of the *)
(* window's resize listener are rendered by a later task, so any number of *)
(* further events may be handled before Render.                            *)
(*                                                                         *)
(* Canvas.  The bitmap is the set `ink` of physical pixels <<px, py>> with *)
(* non-zero alpha, inside width x height, with the current transform       *)
(* `ctm`.  Scale factors are rationals n / DprDen and are stored as n.     *)
(* ctx.stroke() is the host's rasteriser: the model keeps of a stroke the  *)
(* pixels under its two end points, which every stroke with round caps     *)
(* covers at least in part, and on the rim of each cap a pixel the outline *)
(* passes through, which antialiasing covers in part only.                 *)
(*                                                                         *)
(* Specifications.  Spec is the mounted component under pointer, resize,   *)
(* render and clear events.  SpecBottom is the same component with the     *)
(* pointer at the bottom edge, and the export.  SpecScenario starts from    *)
(* chosen surfaces for the growth check and the export.  SpecStroke hands  *)
(* drawLine every tool and size.                                           *)
(***************************************************************************)
EXTENDS Integers, Sequences, FiniteSets

VARIABLES
    isDrawing,    \* useState, line 31
    lastPoint,    \* useState, line 32
    canvasSize,   \* useState, line 33
    dpr,          \* useState, line 34 (numerator over DprDen)
    tool,         \* useState, line 28
    size,         \* useState, line 30
    rendered,     \* the state values the current render's closures hold
    canvas,       \* canvasRef.current: width, height, ctm, ink
    exported,     \* the image handleExport produced in the step just taken
    session,      \* history: the pointer session since the last pointer-down
    draws         \* history: number of drawLine calls so far

vars == <<isDrawing, lastPoint, canvasSize, dpr, tool, size, rendered,
          canvas, exported, session, draws>>

state == <<isDrawing, lastPoint, canvasSize, dpr, tool, size>>

----------------------------------------------------------------------------
(* Program constants *)

Threshold == 200
GrowthStep == 1000
PaddingX == 32
MinWidth == 800
InitialWidth == 1600
InitialHeight == 1400
InitialSize == 4
MinLineWidth == 1
MaxLineWidth == 64
ExportPadding == 10

(* Bounds of the model *)

\* scale factors are multiples of 1 / DprDen
DprDen == 2
\* drawLine calls explored
MaxDraws == 2

----------------------------------------------------------------------------
(* Values *)

Max(a, b) == IF a >= b THEN a ELSE b
Min(a, b) == IF a <= b THEN a ELSE b

Pt(x, y) == [x |-> x, y |-> y]
null == [x |-> -1, y |-> -1]

\* `again` tells that the step before the export was an export too
NoExport ==
    [width |-> 0, height |-> 0, ink |-> {}, done |-> FALSE, again |-> FALSE]
NoSession == [open |-> FALSE, down |-> null, moves |-> <<>>, segs |-> <<>>]

\* window.devicePixelRatio as the environment reports it (numerators); 0
\* is a ratio that is not positive
DevicePixelRatios == {0, DprDen, DprDen + 1}
\* container.clientWidth as the environment reports it: a container without
\* width, and one that leaves an odd logical width
ClientWidths == {0, 1633}
\* slider and tool buttons
SizeSamples == {64}
Tools == {"pen", "eraser"}

\* e.clientX - rect.left, e.clientY - rect.top: a position inside the
\* canvas element's box, which is the rendered logical size (lines 75-76)
PointerSamples(w, h) ==
    {Pt(10, 10), Pt(1000, h - Threshold), Pt(10, h - 190)}
Pointers ==
    {p \in PointerSamples(rendered.canvasSize.width, rendered.canvasSize.height) :
        /\ p.x >= 0 /\ p.x < rendered.canvasSize.width
        /\ p.y >= 0 /\ p.y < rendered.canvasSize.height}

\* Math.floor(v * dpr) with dpr = d / DprDen
Scaled(v, d) == (v * d) \div DprDen

\* clamp without the upper limit
clamp_minOnly(v, min, max) == Max(min, v)

\* line 9
clamp(v, min, max) == Max(min, Min(max, v))

----------------------------------------------------------------------------
(* The canvas element and its 2D context *)

\* the physical pixel a logical point falls on under the transform t
\* (ctx.setTransform(dpr, 0, 0, dpr, 0, 0), line 80)
Pixel(p, t) == <<Scaled(p.x, t), Scaled(p.y, t)>>

InBounds(q, w, h) == q[1] >= 0 /\ q[1] < w /\ q[2] >= 0 /\ q[2] < h

\* ctx.drawImage(image, 0, 0, sw / div, sh / div) under the transform mul:
\* the source bitmap lands on the destination rectangle of sw / div * mul by
\* sh / div * mul physical pixels, clipped to the destination canvas w x h
drawImage(srcInk, mul, div, w, h) ==
    {q \in {<<(s[1] * mul) \div div, (s[2] * mul) \div div>> : s \in srcInk} :
        InBounds(q, w, h)}

\* the effect without line 80: the new bitmap keeps the identity transform
reallocate_noTransform(c, cs, d) ==
    LET prev == [width |-> c.width, height |-> c.height, ink |-> c.ink]
        w == Scaled(cs.width, d)
        h == Scaled(cs.height, d)
    IN  [width  |-> w,
         height |-> h,
         ctm    |-> DprDen,
         ink    |-> IF prev.width # 0 /\ prev.height # 0
                    THEN drawImage(prev.ink, DprDen, d, w, h)
                    ELSE {}]

\* lines 57-86: the effect that (re)initialises the canvas element
reallocate(c, cs, d) ==
    LET prev == [width |-> c.width, height |-> c.height, ink |-> c.ink]
        w == Scaled(cs.width, d)
        h == Scaled(cs.height, d)
    IN  [width  |-> w,
         height |-> h,
         ctm    |-> d,
         ink    |-> IF prev.width # 0 /\ prev.height # 0
                    THEN drawImage(prev.ink, d, d, w, h)
                    ELSE {}]

\* lines 111-113: the stroke is as wide as the clamped size, with round caps
\* and joins, so its shape is every point within half that width of the
\* segment
lineWidth(s) == clamp(s, MinLineWidth, MaxLineWidth)

\* the width in physical pixels, times DprDen
strokeWidth(c, s) == lineWidth(s) * c.ctm

\* the pixels that hold the two end points: the stroke covers them at least
\* in part
strokePixels(c, from, to) ==
    {q \in {Pixel(from, c.ctm), Pixel(to, c.ctm)} : InBounds(q, c.width, c.height)}

\* lines 123-126, ctx.stroke(): the rasteriser antialiases, a pixel the
\* outline passes through takes the paint at its coverage c, 0 < c < 1.
\* The model names pixels where that is certain, for a cap centred on a
\* pixel corner and a whole width W: in the quadrant facing away from the
\* other end the shape is the cap's disc, and the outline passes within a
\* quarter pixel of the centre of the pixel at offset <<a, b>> when
\* (W/2 - 1/4)^2 <= (a + 1/2)^2 + (b + 1/2)^2 <= (W/2 + 1/4)^2.
rimOffset(W) ==
    LET a == (W - 1) \div 2
        bs == {b \in 0..W :
                 /\ (2 * W - 1) * (2 * W - 1)
                       <= 4 * ((2 * a + 1) * (2 * a + 1) + (2 * b + 1) * (2 * b + 1))
                 /\ 4 * ((2 * a + 1) * (2 * a + 1) + (2 * b + 1) * (2 * b + 1))
                       <= (2 * W + 1) * (2 * W + 1)}
    IN  IF bs = {} THEN {}
        ELSE {<<a, CHOOSE b \in bs : \A z \in bs : b <= z>>}

onGrid(c, p, s) ==
    /\ (p.x * c.ctm) % DprDen = 0
    /\ (p.y * c.ctm) % DprDen = 0
    /\ strokeWidth(c, s) % DprDen = 0

\* the rim pixel of the cap at p of a segment whose other end is q, in a
\* quadrant that faces away from q
capRim(c, p, q, s) ==
    IF ~onGrid(c, p, s) THEN {}
    ELSE LET X == Scaled(p.x, c.ctm)
             Y == Scaled(p.y, c.ctm)
         IN  {r \in {<<IF q.x >= p.x THEN X - 1 - o[1] ELSE X + o[1],
                       IF q.y >= p.y THEN Y - 1 - o[2] ELSE Y + o[2]>> :
                          o \in rimOffset(strokeWidth(c, s) \div DprDen)} :
                 InBounds(r, c.width, c.height)}

\* a stroke narrower than the square root of 2 pixels, through a pixel
\* corner, covers no pixel whole
thin(c, from, to, s) ==
    /\ onGrid(c, from, s) /\ onGrid(c, to, s)
    /\ strokeWidth(c, s) * strokeWidth(c, s) < 2 * DprDen * DprDen

\* pixels the stroke is certain to cover in part only
rimPixels(c, from, to, s) ==
    capRim(c, from, to, s) \cup capRim(c, to, from, s)
        \cup (IF thin(c, from, to, s) THEN strokePixels(c, from, to) ELSE {})

\* every pixel the model keeps of the stroke
stroked(c, from, to, s) ==
    strokePixels(c, from, to) \cup rimPixels(c, from, to, s)

\* lines 106-128: one stroked segment on the canvas c with tool t, size s.
\* source-over with an opaque colour leaves alpha > 0 wherever the coverage
\* is not 0; destination-out leaves alpha * (1 - c), which is 0 where the
\* coverage is whole and stays above 0 on the rim of what was inked.
drawLine(c, from, to, t, s) ==
    [c EXCEPT !.ink = IF t = "eraser"
                      THEN @ \ (strokePixels(c, from, to) \ rimPixels(c, from, to, s))
                      ELSE @ \cup stroked(c, from, to, s)]

\* clearRect over the rectangle taken in physical pixels of the logical size
clearRect_untransformed(c, d) ==
    [c EXCEPT !.ink = {q \in @ : ~InBounds(q, (c.width * DprDen) \div d,
                                              (c.height * DprDen) \div d)}]

\* lines 161-171: clearRect(0, 0, c.width, c.height) under the transform d
clearRect(c, d) ==
    [c EXCEPT !.ink = {q \in @ : ~InBounds(q, Scaled(c.width, d), Scaled(c.height, d))}]

\* lines 186-195: the scan for the lowest non-empty row.  The loop visits the
\* rows h-1, h-2, ..., 0, tests each with the inner loop over x (alpha # 0),
\* and stops at the first row that has ink; lastNonEmptyY keeps its initial 0
\* when no row has.  The first inked row in that order is the inked row of
\* greatest index.
rowHasInk(ink, w, y) == \E q \in ink : q[2] = y /\ q[1] >= 0 /\ q[1] < w

inkedRows(ink, w, h) ==
    {y \in {q[2] : q \in ink} : y >= 0 /\ y < h /\ rowHasInk(ink, w, y)}

\* scanRows running from the top and stopping at the first inked row
scanRows_fromTop(ink, w, h) ==
    LET rows == inkedRows(ink, w, h)
    IN  IF rows = {} THEN 0
        ELSE CHOOSE y \in rows : \A z \in rows : z >= y

scanRows(ink, w, h) ==
    LET rows == inkedRows(ink, w, h)
    IN  IF rows = {} THEN 0
        ELSE CHOOSE y \in rows : \A z \in rows : z <= y

\* exportImage without the padding
exportImage_noPadding(c) ==
    LET w == c.width
        h == c.height
        lastNonEmptyY == scanRows(c.ink, w, h)
        eh == Max(1, lastNonEmptyY)
    IN  [width |-> w, height |-> eh,
         ink |-> {q \in c.ink : InBounds(q, w, eh)},
         done |-> TRUE, again |-> FALSE]

\* lines 197-201: the export canvas and the copy into it
exportImage(c) ==
    LET w == c.width
        h == c.height
        lastNonEmptyY == scanRows(c.ink, w, h)
        eh == Max(1, lastNonEmptyY + ExportPadding)
    IN  [width |-> w, height |-> eh,
         ink |-> {q \in c.ink : InBounds(q, w, eh)},
         done |-> TRUE, again |-> FALSE]

----------------------------------------------------------------------------
(* Rendering *)

\* the values a render hands to the closures it creates
Snapshot ==
    [isDrawing |-> isDrawing, lastPoint |-> lastPoint, canvasSize |-> canvasSize,
     dpr |-> dpr, tool |-> tool, size |-> size]

\* the effect with dpr missing from its dependencies
effect_sizeOnly(c, old, new) ==
    IF old.canvasSize # new.canvasSize
    THEN reallocate(c, new.canvasSize, new.dpr)
    ELSE c

\* the effect of lines 57-86 runs when one of its dependencies changed
effect(c, old, new) ==
    IF old.canvasSize # new.canvasSize \/ old.dpr # new.dpr
    THEN reallocate(c, new.canvasSize, new.dpr)
    ELSE c

\* a render of the state as the step leaves it, with its effect
Flush(c) ==
    /\ rendered' = Snapshot'
    /\ canvas' = effect(c, rendered, Snapshot')

\* the render a scheduler task performs for queued updates
Render ==
    /\ rendered # Snapshot
    /\ UNCHANGED <<state, session, draws>>
    /\ Flush(canvas)
    /\ exported' = NoExport

----------------------------------------------------------------------------
(* Handlers *)

\* lines 90-96, onPointerDown (discrete)
startDraw(p) ==
    /\ isDrawing' = TRUE
    /\ lastPoint' = p
    /\ UNCHANGED <<canvasSize, dpr, tool, size, draws>>
    /\ Flush(canvas)
    /\ session' = [open |-> TRUE, down |-> p, moves |-> <<>>, segs |-> <<>>]
    /\ exported' = NoExport

\* extendIfNeeded with the threshold test made inclusive
extendIfNeeded_inclusive(y) ==
    IF rendered.canvasSize.height - y <= Threshold
    THEN [canvasSize EXCEPT !.height = @ + GrowthStep]
    ELSE canvasSize

\* extendIfNeeded with a threshold of 150
extendIfNeeded_narrow(y) ==
    IF rendered.canvasSize.height - y < Threshold - 50
    THEN [canvasSize EXCEPT !.height = @ + GrowthStep]
    ELSE canvasSize

\* lines 98-104: the canvas size queued by the growth check at y
extendIfNeeded(y) ==
    IF rendered.canvasSize.height - y < Threshold
    THEN [canvasSize EXCEPT !.height = @ + GrowthStep]
    ELSE canvasSize

\* lines 130-138, onPointerMove (continuous)
onPointerMove(p) ==
    /\ exported' = NoExport
    /\ UNCHANGED <<isDrawing, dpr, tool, size, rendered>>
    /\ IF ~rendered.isDrawing \/ rendered.lastPoint = null
       THEN /\ UNCHANGED <<lastPoint, canvasSize, canvas, draws>>
            /\ IF session.open
               THEN session' = [session EXCEPT !.moves = Append(@, p)]
               ELSE UNCHANGED session
       ELSE /\ draws < MaxDraws
            /\ canvas' = drawLine(canvas, rendered.lastPoint, p, rendered.tool,
                                 rendered.size)
            /\ lastPoint' = p
            /\ canvasSize' = extendIfNeeded(p.y)
            /\ draws' = draws + 1
            /\ IF session.open
               THEN session' = [session EXCEPT
                          !.moves = Append(@, p),
                          !.segs = Append(@, [from |-> rendered.lastPoint, to |-> p,
                                              tool |-> rendered.tool,
                                              size |-> rendered.size,
                                              width |-> lineWidth(rendered.size)])]
               ELSE UNCHANGED session

\* lines 144-159: the setters the four end handlers call
endDraw ==
    /\ isDrawing' = FALSE
    /\ lastPoint' = null
    /\ UNCHANGED <<canvasSize, dpr, tool, size, draws>>
    /\ session' = NoSession
    /\ exported' = NoExport

\* lines 144-147, onPointerUp (discrete)
endDrawUp == endDraw /\ Flush(canvas)

\* lines 148-151, onPointerCancel (discrete)
endDrawCancel == endDraw /\ Flush(canvas)

\* lines 152-155, onPointerLeave (continuous)
endDrawLeave == endDraw /\ UNCHANGED <<rendered, canvas>>

\* lines 156-159, onPointerOut (continuous)
endDrawOut == endDraw /\ UNCHANGED <<rendered, canvas>>

\* lines 38-49, the window's resize listener, with the environment's
\* container.clientWidth cw and window.devicePixelRatio r
pixelRatioOf(r) == Max(IF r = 0 THEN DprDen ELSE r, DprDen)

widthOf(cw) == Max(MinWidth, cw - PaddingX)

\* resizedSize with the height reset to its initial value
resizedSize_resetHeight(prev, cw) == [width |-> widthOf(cw), height |-> InitialHeight]

\* lines 45-48: the updater handed to setCanvasSize
resizedSize(prev, cw) == [width |-> widthOf(cw), height |-> prev.height]

handleResize(cw, r) ==
    /\ dpr' = pixelRatioOf(r)
    /\ canvasSize' = resizedSize(canvasSize, cw)
    /\ UNCHANGED <<isDrawing, lastPoint, tool, size, rendered, canvas, session, draws>>
    /\ exported' = NoExport

\* lines 161-171, Clear button
handleClear ==
    /\ canvas' = clearRect(canvas, rendered.dpr)
    /\ UNCHANGED <<state, rendered, session, draws>>
    /\ exported' = NoExport

\* lines 173-207, Export PNG button
\* handleExport emptying the source once the crop is taken
handleExport_consuming ==
    /\ exported' = [exportImage(canvas) EXCEPT !.again = exported.done]
    /\ canvas' = clearRect(canvas, rendered.dpr)
    /\ UNCHANGED <<state, rendered, session, draws>>

handleExport ==
    /\ exported' = [exportImage(canvas) EXCEPT !.again = exported.done]
    /\ UNCHANGED <<state, rendered, canvas, session, draws>>

\* lines 229, 235, tool buttons (discrete)
setTool(t) ==
    /\ tool' = t
    /\ UNCHANGED <<isDrawing, lastPoint, canvasSize, dpr, size, session, draws>>
    /\ Flush(canvas)
    /\ exported' = NoExport

\* line 273, size slider (discrete)
setSize(v) ==
    /\ size' = v
    /\ UNCHANGED <<isDrawing, lastPoint, canvasSize, dpr, tool, session, draws>>
    /\ Flush(canvas)
    /\ exported' = NoExport

----------------------------------------------------------------------------
(* The component after mount: the first render with the initial state, the *)
(* canvas initialised by the effect of lines 57-86, and the updates queued *)
(* by the handleResize() call of line 51.  Spec drives the surface: the    *)
(* pointer handlers, the resize listener, the renders and clear, with the  *)
(* toolbar left at its initial pen of size 4.                              *)

initialState ==
    [isDrawing |-> FALSE, lastPoint |-> null,
     canvasSize |-> [width |-> InitialWidth, height |-> InitialHeight],
     dpr |-> DprDen, tool |-> "pen", size |-> InitialSize]

\* the canvas element as the first effect finds it: the platform's default
\* 300 x 150 bitmap, nothing drawn
defaultCanvas ==
    [width |-> 300, height |-> 150, ctm |-> DprDen, ink |-> {}]

Init ==
    /\ isDrawing = FALSE
    /\ lastPoint = null
    /\ \E cw \in ClientWidths :
          canvasSize = resizedSize(initialState.canvasSize, cw)
    /\ \E r \in DevicePixelRatios : dpr = pixelRatioOf(r)
    /\ tool = "pen"
    /\ size = InitialSize
    /\ rendered = initialState
    /\ canvas = reallocate(defaultCanvas, initialState.canvasSize, initialState.dpr)
    /\ exported = NoExport
    /\ session = NoSession
    /\ draws = 0

Next ==
    \/ \E p \in Pointers : startDraw(p)
    \/ \E p \in Pointers : onPointerMove(p)
    \/ endDrawUp
    \/ endDrawCancel
    \/ endDrawLeave
    \/ endDrawOut
    \/ \E cw \in ClientWidths, r \in DevicePixelRatios : handleResize(cw, r)
    \/ Render
    \/ handleClear

Spec == Init /\ [][Next]_vars

----------------------------------------------------------------------------
(* The same component started from chosen surfaces: the pure parts (growth *)
(* check, export scan and crop) are exercised on inputs the mounted        *)
(* component does not start from, without the resize listener and with the *)
(* toolbar left alone                                                      *)

ScenarioHeights == {1, 400, 1000, InitialHeight}

\* a buffer whose inked rows are exactly 0..50
InkRows0to50 == {<<0, r>> : r \in 0..50}

ScenarioInks(h) == IF h = 1000 THEN {{}, InkRows0to50} ELSE {{}}

InitScenario ==
    /\ isDrawing = FALSE
    /\ lastPoint = null
    /\ \E h \in ScenarioHeights : canvasSize = [width |-> InitialWidth, height |-> h]
    /\ dpr = DprDen
    /\ tool = "pen"
    /\ size = InitialSize
    /\ rendered = Snapshot
    /\ \E k \in ScenarioInks(canvasSize.height) :
          canvas = [reallocate(defaultCanvas, canvasSize, dpr) EXCEPT !.ink = k]
    /\ exported = NoExport
    /\ session = NoSession
    /\ draws = 0

NextScenario ==
    \/ \E p \in Pointers : startDraw(p)
    \/ \E p \in Pointers : onPointerMove(p)
    \/ endDrawUp
    \/ endDrawLeave
    \/ Render
    \/ handleClear
    \/ handleExport

SpecScenario == InitScenario /\ [][NextScenario]_vars

----------------------------------------------------------------------------
(* The mounted component with the pointer at the bottom edge of the        *)
(* surface, and the export                                                 *)

BottomPointers ==
    {Pt(10, 10), Pt(10, rendered.canvasSize.height - 2)}

NextBottom ==
    \/ \E p \in BottomPointers : startDraw(p)
    \/ \E p \in BottomPointers : onPointerMove(p)
    \/ endDrawUp
    \/ \E cw \in ClientWidths, r \in DevicePixelRatios : handleResize(cw, r)
    \/ Render
    \/ handleExport

SpecBottom == Init /\ [][NextBottom]_vars

----------------------------------------------------------------------------
(* drawLine as a function of the tool and the size it is handed: a surface *)
(* at either scale factor, every requested size, the pointer handlers and  *)
(* the toolbar                                                             *)

\* sizes handed to drawLine: the slider's range 1..64 and requests outside it
WidthRequests == {0, 1, InitialSize, MaxLineWidth, 200}

InitStroke ==
    /\ isDrawing = FALSE
    /\ lastPoint = null
    /\ canvasSize = [width |-> InitialWidth, height |-> InitialHeight]
    /\ dpr \in {pixelRatioOf(r) : r \in DevicePixelRatios}
    /\ tool = "pen"
    /\ size \in WidthRequests
    /\ rendered = Snapshot
    /\ canvas = reallocate(defaultCanvas, canvasSize, dpr)
    /\ exported = NoExport
    /\ session = NoSession
    /\ draws = 0

NextStroke ==
    \/ \E p \in Pointers : startDraw(p)
    \/ \E p \in Pointers : onPointerMove(p)
    \/ endDrawUp
    \/ Render
    \/ \E t \in Tools : setTool(t)
    \/ \E v \in SizeSamples : setSize(v)

SpecStroke == InitStroke /\ [][NextStroke]_vars

----------------------------------------------------------------------------
(* Claims *)

\* a pointer-down has been received and no up, cancel, leave or out since
InSession == session.open

\* C1: a pointer-move received while the controller is Idle (isDrawing
\* false: before any pointer-down, or after an up, cancel, leave or out)
\* draws nothing and leaves the canvas, the session state and the logical
\* canvas size unchanged.
C1_IdleMoveDrawsNothing ==
    [][\A p \in Pointers :
         (~isDrawing /\ onPointerMove(p)) =>
             UNCHANGED <<canvas, isDrawing, lastPoint, canvasSize, draws>>]_vars

\* C2: within one session the segments form a chain in arrival order: as
\* many segments as pointer-moves, the first from the pointer-down position,
\* each later one from the previous move's position, each to its own move's
\* position.
C2_SessionChain ==
    InSession =>
        /\ Len(session.segs) = Len(session.moves)
        /\ \A i \in 1..Len(session.segs) :
              /\ i <= Len(session.moves) => session.segs[i].to = session.moves[i]
              /\ session.segs[i].from =
                    IF i = 1 THEN session.down ELSE session.segs[i - 1].to

\* C3: each of up, cancel, leave and out leaves the controller Idle with the
\* last point cleared, whether received in Drawing or in Idle, and no
\* segment is drawn from then until a new pointer-down.
C3_EndClosesSession ==
    [][/\ (endDrawUp \/ endDrawCancel \/ endDrawLeave \/ endDrawOut) =>
              (~isDrawing' /\ lastPoint' = null)
       /\ (~InSession /\ ~InSession') => draws' = draws]_vars

C5_NoRunawayGrowth ==
    [][canvasSize'.height > canvasSize.height =>
          canvasSize.height - lastPoint'.y < Threshold]_vars

\* C6: the logical height never decreases: it changes only by one growth
\* step, in a pointer-move that draws, and a step that replaces the width (a
\* container resize) sets it to max(800, clientWidth - 32) and keeps the
\* height.
C6_HeightMonotone ==
    [][/\ canvasSize'.height >= canvasSize.height
       /\ canvasSize'.height # canvasSize.height =>
             /\ canvasSize'.height = canvasSize.height + 1000
             /\ canvasSize'.width = canvasSize.width
             /\ draws' = draws + 1
       /\ canvasSize'.width # canvasSize.width =>
             /\ canvasSize'.height = canvasSize.height
             /\ \E cw \in ClientWidths :
                   canvasSize'.width = Max(800, cw - 32)]_vars

\* a resize replaced the width after a growth had been applied
C6_Witness ==
    /\ rendered.canvasSize.height > InitialHeight
    /\ canvasSize.height = rendered.canvasSize.height
    /\ rendered.canvasSize.width = widthOf(1633)
    /\ canvasSize.width = MinWidth

\* the logical heights growth can reach within MaxDraws moves, and the
\* logical points a stroke can end on
Heights == {InitialHeight + k * GrowthStep : k \in 0..MaxDraws}
LogicalSamples == UNION {PointerSamples(InitialWidth, h) : h \in Heights}

\* a step that reallocated the canvas bitmap
Reallocated ==
    \/ canvas'.width # canvas.width
    \/ canvas'.height # canvas.height
    \/ canvas'.ctm # canvas.ctm

\* C7: strokes stay fixed in logical units across a scale change: a logical
\* point that carries ink before the scale factor changes carries ink after
\* the reallocation, at its pixel under the new scale factor.
C7_StrokesFixedInLogicalUnits ==
    [][canvas'.ctm # canvas.ctm =>
          \A p \in LogicalSamples :
              (/\ Pixel(p, canvas.ctm) \in canvas.ink
               /\ InBounds(Pixel(p, canvas'.ctm), canvas'.width, canvas'.height))
              => Pixel(p, canvas'.ctm) \in canvas'.ink]_vars

\* C8: a reallocation keeps every inked pixel that lies inside the new
\* buffer, and drops ink only when the width (logical or physical) shrinks.
C8_ReallocationKeepsContent ==
    [][Reallocated =>
          /\ \A q \in canvas.ink :
                InBounds(q, canvas'.width, canvas'.height) => q \in canvas'.ink
          /\ ~(canvas.ink \subseteq canvas'.ink) =>
                \/ rendered'.canvasSize.width < rendered.canvasSize.width
                \/ canvas'.width < canvas.width]_vars

\* C9: the export is as wide as the buffer and (bottommost inked row + 10)
\* high, at least 1; a 1000-row buffer whose inked rows are 0..50 exports
\* 60 rows.
C9_ExportCrop ==
    exported.done =>
        /\ exported.width = canvas.width
        /\ exported.height >= 1
        /\ canvas.ink # {} =>
              \E q \in canvas.ink :
                  /\ \A r \in canvas.ink : r[2] <= q[2]
                  /\ exported.height = Max(1, q[2] + 10)
        /\ (canvas.height = 1000 /\ {q[2] : q \in canvas.ink} = 0..50) =>
              exported.height = 60

C9_Witness ==
    /\ exported.done
    /\ canvas.height = 1000
    /\ {q[2] : q \in canvas.ink} = 0..50
    /\ exported.height = 60

\* C10 as stated: the export of a buffer without ink has the minimum crop
\* height, 1.
C10_EmptyExportIsMinimum ==
    (exported.done /\ canvas.ink = {}) => exported.height = 1

\* C10 as amended: the export of a buffer without ink is not an error and
\* is 0 + 10 = 10 rows high (the padding), which is at least the minimum 1,
\* as wide as the buffer and empty, for every buffer size.
C10_EmptyExportIsPadding ==
    (exported.done /\ canvas.ink = {}) =>
        /\ exported.height = 10
        /\ exported.height >= 1
        /\ exported.width = canvas.width
        /\ exported.ink = {}

\* the export of an empty buffer of a single row
C10_Witness ==
    /\ exported.done
    /\ canvas.ink = {}
    /\ canvas.height = 1
    /\ exported.height = 10

\* C11: export is read-only and repeatable: an export leaves the pixel
\* buffer, the logical size, the scale factor and the session state as they
\* were, and an export that directly follows an export yields the same crop
\* height and the same pixel content.
C11_ExportReadOnly ==
    [][exported'.done =>
          /\ UNCHANGED <<canvas, canvasSize, dpr, isDrawing, lastPoint,
                         rendered, session>>
          /\ exported.done =>
                /\ exported'.width = exported.width
                /\ exported'.height = exported.height
                /\ exported'.ink = exported.ink]_vars

\* a second export in a row of a buffer that carries ink
C11_Witness ==
    /\ exported.done
    /\ exported.again
    /\ exported.ink # {}
    /\ canvas.ink # {}

\* C12: clear leaves no inked pixel in the physical buffer, whatever the
\* logical size and the scale factor, keeps the buffer's dimensions, the
\* logical size, the scale factor and the session state, and an export
\* taken right after it sees no ink (the crop of an empty buffer).
C12_ClearEmptiesBuffer ==
    [][(canvas' # canvas /\ draws' = draws /\ rendered' = rendered
                          /\ handleClear) =>
          /\ canvas'.ink = {}
          /\ canvas'.width = canvas.width
          /\ canvas'.height = canvas.height
          /\ canvas'.ctm = canvas.ctm
          /\ UNCHANGED <<canvasSize, dpr, isDrawing, lastPoint, rendered, session>>
          /\ exportImage(canvas').ink = {}
          /\ exportImage(canvas').height = ExportPadding]_vars

\* an empty buffer in a session that has drawn a segment from (10,10): the
\* pen's ink at that point survives every reallocation, so a clear took it
C12_Witness ==
    /\ session.open
    /\ Len(session.segs) > 0
    /\ session.segs[1].from = Pt(10, 10)
    /\ canvas.ink = {}
    /\ canvas.ctm > DprDen

\* the segment a drawing move to p paints has two distinct ends and runs
\* over the path of the session's previous segment (either direction) with
\* the same width
SamePathAsPrevious(p) ==
    /\ session.open
    /\ Len(session.segs) > 0
    /\ LET prev == session.segs[Len(session.segs)]
       IN  /\ rendered.lastPoint # p
           /\ \/ prev.from = rendered.lastPoint /\ prev.to = p
              \/ prev.from = p /\ prev.to = rendered.lastPoint
           /\ prev.width = lineWidth(rendered.size)

PreviousTool == session.segs[Len(session.segs)].tool

\* C13: erasing undoes painting on the same path: after a pen segment
\* followed by an eraser segment over the same path with the same width no
\* pixel of the stroked region carries ink (alpha 0), whereas after the
\* eraser followed by the pen every pixel of the region is inked.
C13_EraseUndoesPen ==
    [][\A p \in Pointers :
         (onPointerMove(p) /\ draws' = draws + 1 /\ SamePathAsPrevious(p)) =>
             LET region == stroked(canvas, rendered.lastPoint, p, rendered.size)
             IN  /\ (PreviousTool = "pen" /\ rendered.tool = "eraser") =>
                        region \cap canvas'.ink = {}
                 /\ (PreviousTool = "eraser" /\ rendered.tool = "pen") =>
                        region \subseteq canvas'.ink]_vars

\* C14: every drawn segment is stroked with the requested width clamped to
\* [1,64]: a request of 200 draws with 64, a request of 0 with 1, and a
\* request inside the range with the request itself.
C14_WidthClamped ==
    [][\A p \in Pointers :
         (draws' = draws + 1 /\ onPointerMove(p)) =>
             LET request == rendered.size
                 width == IF request < 1 THEN 1
                          ELSE IF request > 64 THEN 64 ELSE request
             IN  /\ request = 200 => width = 64
                 /\ request = 0 => width = 1
                 /\ session'.segs[Len(session'.segs)].width = width
                 /\ canvas' = drawLine(canvas, rendered.lastPoint, p,
                                       rendered.tool, width)]_vars

\* a segment drawn at a request of 200 has the width 64
C14_Witness ==
    /\ session.open
    /\ Len(session.segs) > 0
    /\ session.segs[1].size = 200
    /\ session.segs[1].width = 64
    /\ session.segs[1].from # session.segs[1].to
    /\ canvas.ink # {}

\* C15: a resize or scale-change notification that carries a width or a
\* scale that is not positive is a no-op: the logical size and the scale
\* factor keep their last values (and so does the buffer, which follows
\* them).
C15_NonPositiveResizeIsNoOp ==
    [][\A cw \in ClientWidths, r \in DevicePixelRatios :
         (handleResize(cw, r) /\ (cw <= 0 \/ r <= 0)) =>
             UNCHANGED <<canvasSize, dpr>>]_vars

\* C16: once the reallocation of a render has completed, the physical
\* buffer is floor(logical width x scale) by floor(logical height x scale)
\* for the logical size and scale factor of that render, and draws under
\* that scale; with nothing left to render these are the current ones.
C16_BufferIsFloorOfLogical ==
    /\ canvas.width = (rendered.canvasSize.width * rendered.dpr) \div DprDen
    /\ canvas.height = (rendered.canvasSize.height * rendered.dpr) \div DprDen
    /\ canvas.ctm = rendered.dpr
    /\ rendered = Snapshot =>
          /\ canvas.width = (canvasSize.width * dpr) \div DprDen
          /\ canvas.height = (canvasSize.height * dpr) \div DprDen

\* a grown surface of odd width at a fractional scale: the floor cuts
C16_Witness ==
    /\ rendered = Snapshot
    /\ canvasSize.width = 1601
    /\ canvasSize.height > InitialHeight
    /\ (canvasSize.width * dpr) % DprDen # 0
    /\ canvas.width * DprDen < canvasSize.width * dpr
    /\ canvas.ink # {}

\* what every onPointerMove step leaves alone
MoveFrame ==
    /\ rendered' = rendered
    /\ isDrawing' = isDrawing
    /\ dpr' = dpr
    /\ canvasSize'.width = canvasSize.width

\* C17: a reallocation between two pointer events of one session leaves the
\* session as it was (Drawing, the last point at its logical coordinates),
\* and the pointer-move that follows the render draws a segment from that
\* last point to its own position, under the scale factor rendered (what
\* of it lies inside the buffer: a narrower surface may leave the last
\* point outside).
C17_ReallocationKeepsSession ==
    [][/\ (InSession /\ Reallocated /\ Render) =>
             /\ isDrawing /\ isDrawing'
             /\ lastPoint' = lastPoint
             /\ session' = session
             /\ rendered'.isDrawing
             /\ rendered'.lastPoint = lastPoint
       /\ \A p \in Pointers :
             (/\ InSession /\ rendered = Snapshot
              /\ MoveFrame
              /\ onPointerMove(p)) =>
                 /\ draws' = draws + 1
                 /\ lastPoint' = p
                 /\ session'.segs[Len(session'.segs)].from = lastPoint
                 /\ session'.segs[Len(session'.segs)].to = p
                 /\ InBounds(Pixel(lastPoint, rendered.dpr),
                             canvas.width, canvas.height) =>
                       Pixel(lastPoint, rendered.dpr) \in canvas'.ink
                 /\ Pixel(p, rendered.dpr) \in canvas'.ink]_vars

\* two segments of one session, the second drawn on the surface the first
\* one's growth had reallocated in between, at a scale factor above 1
C17_Witness ==
    /\ session.open
    /\ Len(session.segs) = 2
    /\ session.segs[1].to = Pt(10, InitialHeight - 190)
    /\ session.segs[2].from = session.segs[1].to
    /\ session.segs[2].to = Pt(10, InitialHeight + GrowthStep - 190)
    /\ canvas.ctm > DprDen
    /\ Pixel(session.segs[2].to, canvas.ctm) \in canvas.ink

\* C18: a pointer-move sampled at y (the step that draws, and makes the
\* sample the last point) leaves a logical height, once its growth is
\* applied, with height - y >= 200; so every point the moves of the session
\* have sampled lies at least 200 above the bottom edge.
C18_BottomMargin ==
    /\ [][draws' = draws + 1 =>
             /\ lastPoint' \in Pointers
             /\ canvasSize'.height - lastPoint'.y >= 200]_vars
    /\ [](\A i \in 1..Len(session.segs) :
             /\ canvasSize.height - session.segs[i].to.y >= 200
             /\ rendered = Snapshot =>
                   rendered.canvasSize.height - session.segs[i].to.y >= 200)

\* a move 190 above the bottom edge, its growth rendered
C18_Witness ==
    /\ session.open
    /\ Len(session.segs) = 1
    /\ session.segs[1].to = Pt(10, InitialHeight - 190)
    /\ rendered = Snapshot
    /\ rendered.canvasSize.height = InitialHeight + GrowthStep

\* C19: the export's crop height, bottommost inked row + 10, does not exceed
\* the height of the physical buffer it is cut from.
C19_CropWithinBuffer ==
    exported.done => exported.height <= canvas.height

\* C20: the drawing flag and the last point agree in every state: isDrawing
\* is true exactly when lastPoint is not null.
C20_FlagAndPointAgree ==
    isDrawing <=> lastPoint # null

====
